---- MODULE Spec2Model ----
(***************************************************************************)
(* Abstract-interpretation core of redex: the AbstractDomainScaffolding    *)
(* combinator of libredex/AbstractDomain.h, the powerset value it is       *)
(* instantiated with (HashedSetAbstractDomain) and the monotonic fixpoint  *)
(* iterator that test/integ/MonotonicFixpointTest.cpp drives.              *)
(***************************************************************************)
EXTENDS Integers, Sequences, FiniteSets, TLC

(***************************************************************************)
(* Bounds of the model.                                                    *)
(***************************************************************************)
\* Number of registers v0 .. v(NumRegs-1) the powerset ranges over.
NumRegs == 4
Registers == 0 .. (NumRegs - 1)

\* IRFixpointIterator::get_register: "v" followed by the register number.
get_register(i) == <<"v", i>>

Universe == { get_register(i) : i \in Registers }

Kinds == {"Bottom", "Value", "Top"}

(***************************************************************************)
(* The powerset value (AbstractValue over a hashable element type).        *)
(* A value is its representation: a finite set of elements.                *)
(***************************************************************************)
\* The representation of a default-constructed value.
V_default == {}

\* clear(): release the representation.
V_clear(v) == {}

\* kind(): Top if saturated, Value for any other finite set.
V_kind(v) == IF v = Universe THEN "Top" ELSE "Value"

V_leq(v, w) == v \subseteq w

V_equals(v, w) == v = w

\* The mutating operations return the new representation and its Kind.
V_join_with(v, w) == [value |-> v \cup w, kind |-> V_kind(v \cup w)]

V_widen_with(v, w) == V_join_with(v, w)

V_meet_with(v, w) == [value |-> v \cap w, kind |-> V_kind(v \cap w)]

V_narrow_with(v, w) == V_meet_with(v, w)

(***************************************************************************)
(* AbstractDomainScaffolding: an element is m_kind and m_value.            *)
(***************************************************************************)
Elem(k, v) == [kind |-> k, value |-> v]

\* AbstractDomainScaffolding(): m_kind = m_value.kind().
DefaultCtor == Elem(V_kind(V_default), V_default)

\* AbstractDomainScaffolding(kind): kind is not Value (always_assert).
KindCtor(k) == Elem(k, V_default)

bottom == KindCtor("Bottom")

top == KindCtor("Top")

is_bottom(e) == e.kind = "Bottom"

is_top(e) == e.kind = "Top"

is_value(e) == e.kind = "Value"

set_to_bottom(e) == Elem("Bottom", V_clear(e.value))

set_to_top(e) == Elem("Top", V_clear(e.value))

\* A leq that tests the receiver for Top before the argument.
LeqTopSelfFirst(self, other) ==
    IF is_bottom(self) THEN TRUE
    ELSE IF is_bottom(other) THEN FALSE
    ELSE IF is_top(self) THEN FALSE
    ELSE IF is_top(other) THEN TRUE
    ELSE V_leq(self.value, other.value)

\* A leq that lacks the case of a Top argument.
LeqWithoutTopCase(self, other) ==
    IF is_bottom(self) THEN TRUE
    ELSE IF is_bottom(other) THEN FALSE
    ELSE IF is_top(self) THEN FALSE
    ELSE V_leq(self.value, other.value)

leq(self, other) ==
    IF is_bottom(self) THEN TRUE
    ELSE IF is_bottom(other) THEN FALSE
    ELSE IF is_top(other) THEN TRUE
    ELSE IF is_top(self) THEN FALSE
    ELSE V_leq(self.value, other.value)

equals(self, other) ==
    self.kind = other.kind /\ V_equals(self.value, other.value)

\* The lambdas of join_with .. narrow_with: m_kind = m_value.op(other.m_value).
value_join(self, other) ==
    LET r == V_join_with(self.value, other.value) IN Elem(r.kind, r.value)

value_widening(self, other) ==
    LET r == V_widen_with(self.value, other.value) IN Elem(r.kind, r.value)

value_meet(self, other) ==
    LET r == V_meet_with(self.value, other.value) IN Elem(r.kind, r.value)

value_narrowing(self, other) ==
    LET r == V_narrow_with(self.value, other.value) IN Elem(r.kind, r.value)

\* The parameter operation is the element operation() leaves in self.
\* A join-like operation that lacks the case of a Top argument.
JoinLikeWithoutTopCase(self, other, operation) ==
    IF is_top(self) \/ is_bottom(other) THEN self
    ELSE IF is_bottom(self) THEN Elem(other.kind, other.value)
    ELSE operation

join_like_operation_with(self, other, operation) ==
    IF is_top(self) \/ is_bottom(other) THEN self
    ELSE IF is_top(other) THEN set_to_top(self)
    ELSE IF is_bottom(self) THEN Elem(other.kind, other.value)
    ELSE operation

\* A meet-like operation that lacks the copy of the argument into a Top self.
MeetLikeWithoutCopy(self, other, operation) ==
    IF is_bottom(self) \/ is_top(other) THEN self
    ELSE IF is_bottom(other) THEN set_to_bottom(self)
    ELSE operation

meet_like_operation_with(self, other, operation) ==
    IF is_bottom(self) \/ is_top(other) THEN self
    ELSE IF is_bottom(other) THEN set_to_bottom(self)
    ELSE IF is_top(self) THEN Elem(other.kind, other.value)
    ELSE operation

join_with(self, other) ==
    join_like_operation_with(self, other, value_join(self, other))

\* A widening whose lambda calls the value's narrowing.
WidenWithNarrowing(self, other) ==
    join_like_operation_with(self, other, value_narrowing(self, other))

widen_with(self, other) ==
    join_like_operation_with(self, other, value_widening(self, other))

meet_with(self, other) ==
    meet_like_operation_with(self, other, value_meet(self, other))

narrow_with(self, other) ==
    meet_like_operation_with(self, other, value_narrowing(self, other))

set_to_value(self, value) == Elem(V_kind(value), value)

normalize(self) ==
    LET k == V_kind(self.value) IN
    IF k = "Bottom" \/ k = "Top" THEN Elem(k, V_clear(self.value))
    ELSE Elem(k, self.value)

(***************************************************************************)
(* The functional interface of AbstractDomain: tmp is copy-constructed     *)
(* from the receiver, the side-effecting operation is applied to tmp, and  *)
(* tmp is returned.                                                        *)
(***************************************************************************)
\* A join whose tmp is default-constructed instead of copied from *this.
JoinWithoutCopy(self, other) ==
    LET tmp == DefaultCtor IN join_with(tmp, other)

join(self, other) ==
    LET tmp == self IN join_with(tmp, other)

widening(self, other) ==
    LET tmp == self IN widen_with(tmp, other)

meet(self, other) ==
    LET tmp == self IN meet_with(tmp, other)

narrowing(self, other) ==
    LET tmp == self IN narrow_with(tmp, other)

(***************************************************************************)
(* State of the domain-level specification: two elements, the operands of  *)
(* the binary operations, and a record of the last operation applied       *)
(* (which one, on which element, with which argument, and both operands as *)
(* they were before it). ret holds the element returned by the last        *)
(* operation when that was a functional one, and is empty otherwise.       *)
(***************************************************************************)
VARIABLES elem, last, ret, m_cfg, fp, seed, entry, exit, code, pc, phase, prev

dvars == <<elem, last, ret>>

fvars == <<m_cfg, fp, seed, entry, exit, code, pc, phase, prev>>

vars == <<elem, last, ret, m_cfg, fp, seed, entry, exit, code, pc, phase, prev>>

ElemIds == {"a", "b"}

Op(name, i, j) ==
    [op |-> name, self |-> i, other |-> j, pre |-> elem[i], preOther |-> elem[j]]

DInit ==
    /\ elem = [i \in ElemIds |-> DefaultCtor]
    /\ last = [op |-> "ctor", self |-> "a", other |-> "a",
               pre |-> DefaultCtor, preOther |-> DefaultCtor]
    /\ ret = <<>>

Construct(i) ==
    /\ elem' = [elem EXCEPT ![i] = DefaultCtor]
    /\ last' = Op("ctor", i, i)
    /\ ret' = <<>>
    /\ UNCHANGED fvars

ConstructKind(i, k) ==
    /\ k # "Value"
    /\ elem' = [elem EXCEPT ![i] = KindCtor(k)]
    /\ last' = Op("kind_ctor", i, i)
    /\ ret' = <<>>
    /\ UNCHANGED fvars

SetToBottom(i) ==
    /\ elem' = [elem EXCEPT ![i] = set_to_bottom(elem[i])]
    /\ last' = Op("set_to_bottom", i, i)
    /\ ret' = <<>>
    /\ UNCHANGED fvars

SetToTop(i) ==
    /\ elem' = [elem EXCEPT ![i] = set_to_top(elem[i])]
    /\ last' = Op("set_to_top", i, i)
    /\ ret' = <<>>
    /\ UNCHANGED fvars

SetToValue(i, v) ==
    /\ elem' = [elem EXCEPT ![i] = set_to_value(elem[i], v)]
    /\ last' = Op("set_to_value", i, i)
    /\ ret' = <<>>
    /\ UNCHANGED fvars

Normalize(i) ==
    /\ elem' = [elem EXCEPT ![i] = normalize(elem[i])]
    /\ last' = Op("normalize", i, i)
    /\ ret' = <<>>
    /\ UNCHANGED fvars

JoinWith(i, j) ==
    /\ elem' = [elem EXCEPT ![i] = join_with(elem[i], elem[j])]
    /\ last' = Op("join_with", i, j)
    /\ ret' = <<>>
    /\ UNCHANGED fvars

WidenWith(i, j) ==
    /\ elem' = [elem EXCEPT ![i] = widen_with(elem[i], elem[j])]
    /\ last' = Op("widen_with", i, j)
    /\ ret' = <<>>
    /\ UNCHANGED fvars

MeetWith(i, j) ==
    /\ elem' = [elem EXCEPT ![i] = meet_with(elem[i], elem[j])]
    /\ last' = Op("meet_with", i, j)
    /\ ret' = <<>>
    /\ UNCHANGED fvars

NarrowWith(i, j) ==
    /\ elem' = [elem EXCEPT ![i] = narrow_with(elem[i], elem[j])]
    /\ last' = Op("narrow_with", i, j)
    /\ ret' = <<>>
    /\ UNCHANGED fvars

\* The comparison: a const method, ret holds the boolean it returns.
Leq(i, j) ==
    /\ ret' = <<leq(elem[i], elem[j])>>
    /\ last' = Op("leq", i, j)
    /\ UNCHANGED <<elem, fvars>>

\* The functional operations: const methods, the operands are not written.
Join(i, j) ==
    /\ ret' = <<join(elem[i], elem[j])>>
    /\ last' = Op("join", i, j)
    /\ UNCHANGED <<elem, fvars>>

Widening(i, j) ==
    /\ ret' = <<widening(elem[i], elem[j])>>
    /\ last' = Op("widening", i, j)
    /\ UNCHANGED <<elem, fvars>>

Meet(i, j) ==
    /\ ret' = <<meet(elem[i], elem[j])>>
    /\ last' = Op("meet", i, j)
    /\ UNCHANGED <<elem, fvars>>

Narrowing(i, j) ==
    /\ ret' = <<narrowing(elem[i], elem[j])>>
    /\ last' = Op("narrowing", i, j)
    /\ UNCHANGED <<elem, fvars>>

(***************************************************************************)
(* HashedSetAbstractDomain: the set-level helpers, forwarded to the value  *)
(* when the element is of kind Value, followed by normalize().             *)
(***************************************************************************)
add(e, x) ==
    IF is_value(e) THEN normalize(Elem(e.kind, e.value \cup {x})) ELSE e

remove(e, x) ==
    IF is_value(e) THEN normalize(Elem(e.kind, e.value \ {x})) ELSE e

(***************************************************************************)
(* Control-flow graphs.  A block is its successors and its instructions;   *)
(* an instruction is its destination (if any), its sources and, for an     *)
(* invoke-range, its register range.                                       *)
(***************************************************************************)
Insn(dsz, d, s, rng, rb, rsz) ==
    [dests_size |-> dsz, dest |-> d, srcs |-> s,
     has_range |-> rng, range_base |-> rb, range_size |-> rsz]

Move(d, s) == Insn(1, d, <<s>>, FALSE, 0, 0)

Const(d) == Insn(1, d, <<>>, FALSE, 0, 0)

Use(s) == Insn(0, 0, s, FALSE, 0, 0)

InvokeRange(rb, rsz) == Insn(0, 0, <<>>, TRUE, rb, rsz)

Block(s, i) == [succs |-> s, insns |-> i]

BlockIds(cfg) == DOMAIN cfg.blocks

RECURSIVE SortedSeq(_)
\* The elements of a finite set of block ids, in increasing order.
SortedSeq(S) ==
    IF S = {} THEN <<>>
    ELSE LET m == CHOOSE x \in S : \A y \in S : x <= y
         IN <<m>> \o SortedSeq(S \ {m})

InSeq(x, s) == \E k \in 1 .. Len(s) : s[k] = x

\* Block::succs and Block::preds of a control-flow graph.
BlockSuccs(cfg, b) == cfg.blocks[b].succs

BlockPreds(cfg, b) ==
    SortedSeq({p \in BlockIds(cfg) : InSeq(b, cfg.blocks[p].succs)})

(***************************************************************************)
(* IRFixpointIterator: the liveness client of the fixpoint iterator.       *)
(***************************************************************************)
RECURSIVE AddAll(_, _, _)
\* current_state->add(get_register(regs[k])) for k = i .. Len(regs).
AddAll(state, regs, i) ==
    IF i > Len(regs) THEN state
    ELSE AddAll(add(state, get_register(regs[i])), regs, i + 1)

RECURSIVE AddRange(_, _, _, _)
\* current_state->add(get_register(base + i)) for i = i .. size - 1.
AddRange(state, base, size, i) ==
    IF i >= size THEN state
    ELSE AddRange(add(state, get_register(base + i)), base, size, i + 1)

analyze_instruction(insn, current_state) ==
    LET s1 == IF insn.dests_size # 0
              THEN remove(current_state, get_register(insn.dest))
              ELSE current_state
        s2 == AddAll(s1, insn.srcs, 1)
    IN IF insn.has_range
       THEN AddRange(s2, insn.range_base, insn.range_size, 0)
       ELSE s2

RECURSIVE AnalyzeFrom(_, _, _)
\* The instructions insns[1 .. i] in the reverse order of execution.
AnalyzeFrom(insns, i, state) ==
    IF i = 0 THEN state
    ELSE AnalyzeFrom(insns, i - 1, analyze_instruction(insns[i], state))

analyze_node(cfg, block, current_state) ==
    AnalyzeFrom(cfg.blocks[block].insns, Len(cfg.blocks[block].insns),
                current_state)

\* Edges have no semantic transformers attached.
analyze_edge(cfg, source_block, target_block, exit_state_at_source) ==
    exit_state_at_source

\* An iterator whose successors and predecessors functions are not swapped.
IteratorNotSwapped(cfg, exit_block) ==
    [root |-> exit_block,
     succs |-> [b \in BlockIds(cfg) |-> BlockSuccs(cfg, b)],
     preds |-> [b \in BlockIds(cfg) |-> BlockPreds(cfg, b)]]

\* IRFixpointIterator(cfg, exit_block): the exit block is the root, and the
\* successors and predecessors functions are swapped.
IRFixpointIterator(cfg, exit_block) ==
    [root |-> exit_block,
     succs |-> [b \in BlockIds(cfg) |-> BlockPreds(cfg, b)],
     preds |-> [b \in BlockIds(cfg) |-> BlockSuccs(cfg, b)]]

(***************************************************************************)
(* Weak topological ordering of the graph from the root (Bourdoncle).      *)
(* An element of the ordering is a vertex, or a component: its head and    *)
(* the ordering of the rest of it.                                         *)
(***************************************************************************)
\* A number above every depth-first number: a vertex is numbered at most once
\* per component it lies in.
Infinity(succs) == Cardinality(DOMAIN succs) * Cardinality(DOMAIN succs) + 1

Vertex(n) == [head |-> n, body |-> <<>>, isComp |-> FALSE]

Comp(n, b) == [head |-> n, body |-> b, isComp |-> TRUE]

RECURSIVE PopUntil(_, _)
\* Pop the stack down to and including vertex, resetting the others' numbers.
PopUntil(vertex, st) ==
    LET element == Head(st.stack)
        st1 == [st EXCEPT !.stack = Tail(st.stack)]
    IN IF element = vertex THEN st1
       ELSE PopUntil(vertex, [st1 EXCEPT !.dfn[element] = 0])

RECURSIVE Visit(_, _, _, _)
RECURSIVE VisitSuccs(_, _, _, _)
RECURSIVE ComponentSuccs(_, _, _, _)

VisitSuccs(succs, vertex, i, acc) ==
    IF i > Len(succs[vertex]) THEN acc
    ELSE LET s == succs[vertex][i]
             r == IF acc.st.dfn[s] = 0
                  THEN Visit(succs, s, acc.st, acc.part)
                  ELSE [st |-> acc.st, part |-> acc.part, head |-> acc.st.dfn[s]]
             lower == r.head <= acc.head
         IN VisitSuccs(succs, vertex, i + 1,
                       [st |-> r.st, part |-> r.part,
                        head |-> IF lower THEN r.head ELSE acc.head,
                        loop |-> acc.loop \/ lower])

ComponentSuccs(succs, vertex, i, acc) ==
    IF i > Len(succs[vertex]) THEN acc
    ELSE LET s == succs[vertex][i]
             r == IF acc.st.dfn[s] = 0
                  THEN Visit(succs, s, acc.st, acc.part)
                  ELSE [st |-> acc.st, part |-> acc.part, head |-> 0]
         IN ComponentSuccs(succs, vertex, i + 1, [st |-> r.st, part |-> r.part])

Component(succs, vertex, st) ==
    LET r == ComponentSuccs(succs, vertex, 1, [st |-> st, part |-> <<>>])
    IN [st |-> r.st, part |-> <<Comp(vertex, r.part)>>]

Visit(succs, vertex, st, part) ==
    LET num == st.num + 1
        st1 == [dfn |-> [st.dfn EXCEPT ![vertex] = num], num |-> num,
                stack |-> <<vertex>> \o st.stack]
        r == VisitSuccs(succs, vertex, 1,
                        [st |-> st1, part |-> part, head |-> num, loop |-> FALSE])
    IN IF r.head = r.st.dfn[vertex]
       THEN LET st2 == [r.st EXCEPT !.dfn[vertex] = Infinity(succs)]
            IN IF r.loop
               THEN LET c == Component(succs, vertex, PopUntil(vertex, st2))
                    IN [st |-> c.st, part |-> c.part \o r.part, head |-> r.head]
               ELSE [st |-> [st2 EXCEPT !.stack = Tail(st2.stack)],
                     part |-> <<Vertex(vertex)>> \o r.part, head |-> r.head]
       ELSE [st |-> r.st, part |-> r.part, head |-> r.head]

WeakTopologicalOrdering(root, succs) ==
    Visit(succs, root,
          [dfn |-> [n \in DOMAIN succs |-> 0], num |-> 0, stack |-> <<>>],
          <<>>).part

RECURSIVE Flatten(_, _)
\* The iteration strategy of an ordering as a sequence of steps: a plain
\* vertex, the head of a component on entering it, and the end of a
\* component, whose target is the first step after its head.
Flatten(w, base) ==
    IF w = <<>> THEN <<>>
    ELSE LET e == Head(w)
             first ==
                 IF e.isComp
                 THEN <<[kind |-> "head", node |-> e.head, target |-> base + 2]>>
                      \o Flatten(e.body, base + 1)
                      \o <<[kind |-> "end", node |-> e.head, target |-> base + 2]>>
                 ELSE <<[kind |-> "vertex", node |-> e.head, target |-> base + 2]>>
         IN first \o Flatten(Tail(w), base + Len(first))

(***************************************************************************)
(* The programs the iterator is run on.                                    *)
(***************************************************************************)
\* Block bodies: no instruction; a move of v0 into v1 (v1 is dead before it,
\* v0 live); a use of v0 and an invoke-range over v2 and the registers above.
Bodies ==
    { <<>>,
      <<Move(1, 0)>>,
      <<Use(<<0>>), InvokeRange(2, NumRegs - 2)>> }

\* Successors of the blocks of each graph; the last block is the exit.
ChainSuccs == <<  <<1>>, <<2>>, <<>>  >>

LoopSuccs == <<  <<1>>, <<1, 2>>, <<>>  >>

NestedSuccs == <<  <<1>>, <<2, 3>>, <<2, 1>>, <<>>  >>

IrreducibleSuccs == <<  <<1, 2>>, <<2, 3>>, <<1, 3>>, <<>>  >>

UnreachableSuccs == <<  <<1>>, <<2, 3>>, <<2>>, <<>>  >>

DiamondSuccs == <<  <<1, 2>>, <<3>>, <<3>>, <<>>  >>

GraphShapes ==
    {ChainSuccs, LoopSuccs, NestedSuccs, IrreducibleSuccs, UnreachableSuccs,
     DiamondSuccs}

\* A graph of n blocks numbered 0 .. n-1 from its successors and bodies.
MakeCfg(shape, bodies) ==
    [blocks |-> [b \in 0 .. (Len(shape) - 1) |->
                    Block(shape[b + 1], bodies[b + 1])],
     exit |-> Len(shape) - 1]

\* function_1 of the liveness test: block 0 sets v0 and v2, block 1 computes
\* v1 from v0, v0 from v1 and tests v0 against v2, block 2 returns v2.
ScenarioBodies ==
    <<  <<Const(0), Const(2)>>,
        <<Move(1, 0), Move(0, 1), Use(<<0, 2>>)>>,
        <<Use(<<2>>)>>  >>

ScenarioChain == MakeCfg(ChainSuccs, ScenarioBodies)

ScenarioLoop == MakeCfg(LoopSuccs, ScenarioBodies)

Programs ==
    {ScenarioChain, ScenarioLoop}
    \cup UNION { { MakeCfg(shape, bodies) :
                     bodies \in [1 .. Len(shape) -> Bodies] } :
                 shape \in GraphShapes }

\* The seeds run is called with.
Seeds ==
    { DefaultCtor, bottom, top,
      set_to_value(DefaultCtor, {get_register(1)}),
      set_to_value(DefaultCtor, Universe \ {get_register(0)}) }

\* Node ids an accessor may be asked about: the blocks and one unknown id.
QueryIds(cfg) == BlockIds(cfg) \cup {Cardinality(BlockIds(cfg))}

(***************************************************************************)
(* MonotonicFixpointIterator: the state of one iterator.                   *)
(*   m_cfg  the graph it was constructed on                                *)
(*   fp     root, succs and preds as given to the constructor              *)
(*   seed   the argument of the current run                                *)
(*   entry, exit   the state maps: a node that was never stored is absent  *)
(*   code, pc      the iteration strategy and the position in it           *)
(*   phase  "idle" (constructed), "running", "done" (run has returned)     *)
(*   prev   seed and entry states of the run before this one               *)
(***************************************************************************)
EmptyMap == [n \in {} |-> bottom]

MapPut(m, n, v) ==
    [x \in (DOMAIN m) \cup {n} |-> IF x = n THEN v ELSE m[x]]

\* A lookup that default-constructs the state of a node it does not hold.
MapGetDefault(m, n) == IF n \in DOMAIN m THEN m[n] ELSE DefaultCtor

\* An unknown node is treated as unreachable: Bottom.
MapGet(m, n) == IF n \in DOMAIN m THEN m[n] ELSE bottom

get_entry_state_at(n) == MapGet(entry, n)

get_exit_state_at(n) == MapGet(exit, n)

\* Live-in variables read from the entry state.
LiveInFromEntry(block) == get_entry_state_at(block)

get_live_in_vars_at(block) == get_exit_state_at(block)

get_live_out_vars_at(block) == get_entry_state_at(block)

RECURSIVE JoinPreds(_, _, _, _, _, _)
\* acc joined with analyze_edge(p, n, exit(p)) for p = ps[i], ps[i+1], ...
JoinPreds(g, ex, n, ps, i, acc) ==
    IF i > Len(ps) THEN acc
    ELSE JoinPreds(g, ex, n, ps, i + 1,
                   join_with(acc, analyze_edge(g, ps[i], n, MapGet(ex, ps[i]))))

\* The join of the edge-transformed exits of the predecessors of n, plus the
\* seed (joined to Bottom) at the root.
NewEntry(g, it, sd, ex, n) ==
    JoinPreds(g, ex, n, it.preds[n], 1,
              IF n = it.root THEN join_with(bottom, sd) ELSE bottom)

Cur == code[pc]

FInit ==
    /\ m_cfg \in Programs
    /\ fp = IRFixpointIterator(m_cfg, m_cfg.exit)
    /\ seed = bottom
    /\ entry = EmptyMap
    /\ exit = EmptyMap
    /\ code = <<>>
    /\ pc = 0
    /\ phase = "idle"
    /\ prev = [valid |-> FALSE, seed |-> bottom, entry |-> EmptyMap]

\* run(seed): prior results are replaced, the ordering is computed from the
\* root and iteration starts at its first element.
Run(s) ==
    /\ phase \in {"idle", "done"}
    /\ seed' = s
    /\ entry' = EmptyMap
    /\ exit' = EmptyMap
    /\ code' = Flatten(WeakTopologicalOrdering(fp.root, fp.succs), 0)
    /\ pc' = 1
    /\ phase' = "running"
    /\ prev' = IF phase = "done"
               THEN [valid |-> TRUE, seed |-> seed, entry |-> entry]
               ELSE prev
    /\ UNCHANGED <<m_cfg, fp>>
    /\ UNCHANGED dvars

\* The state stored at node n when its entry state becomes e.
Store(n, e) ==
    /\ entry' = MapPut(entry, n, e)
    /\ exit' = MapPut(exit, n, analyze_node(m_cfg, n, e))

\* A node outside any loop head position: entry := new entry, exit := its
\* transfer.
AnalyzeVertex ==
    /\ phase = "running" /\ pc <= Len(code)
    /\ Cur.kind = "vertex"
    /\ Store(Cur.node, NewEntry(m_cfg, fp, seed, exit, Cur.node))
    /\ pc' = pc + 1
    /\ UNCHANGED <<m_cfg, fp, seed, code, phase, prev>>
    /\ UNCHANGED dvars

\* The head of a component, on entering the component.
EnterComponent ==
    /\ phase = "running" /\ pc <= Len(code)
    /\ Cur.kind = "head"
    /\ Store(Cur.node, NewEntry(m_cfg, fp, seed, exit, Cur.node))
    /\ pc' = pc + 1
    /\ UNCHANGED <<m_cfg, fp, seed, code, phase, prev>>
    /\ UNCHANGED dvars

\* The entry state of the head of the component ending at pc, widened with
\* its new entry.
Widened ==
    widen_with(MapGet(entry, Cur.node),
               NewEntry(m_cfg, fp, seed, exit, Cur.node))

\* A component iterated again whether or not its head's state changed.
ReiterateAlways ==
    /\ phase = "running" /\ pc <= Len(code)
    /\ Cur.kind = "end"
    /\ Store(Cur.node, Widened)
    /\ pc' = Cur.target
    /\ UNCHANGED <<m_cfg, fp, seed, code, phase, prev>>
    /\ UNCHANGED dvars

\* The end of a component whose head's state changed: iterate it again.
Reiterate ==
    /\ phase = "running" /\ pc <= Len(code)
    /\ Cur.kind = "end"
    /\ ~equals(Widened, MapGet(entry, Cur.node))
    /\ Store(Cur.node, Widened)
    /\ pc' = Cur.target
    /\ UNCHANGED <<m_cfg, fp, seed, code, phase, prev>>
    /\ UNCHANGED dvars

\* The end of a component whose head's state did not change: proceed.
ExitComponent ==
    /\ phase = "running" /\ pc <= Len(code)
    /\ Cur.kind = "end"
    /\ equals(Widened, MapGet(entry, Cur.node))
    /\ pc' = pc + 1
    /\ UNCHANGED <<m_cfg, fp, seed, entry, exit, code, phase, prev>>
    /\ UNCHANGED dvars

\* run returns.
Return ==
    /\ phase = "running" /\ pc > Len(code)
    /\ phase' = "done"
    /\ UNCHANGED <<m_cfg, fp, seed, entry, exit, code, pc, prev>>
    /\ UNCHANGED dvars

FNext ==
    \/ \E s \in Seeds : Run(s)
    \/ AnalyzeVertex
    \/ EnterComponent
    \/ Reiterate
    \/ ExitComponent
    \/ Return

\* The iterator at rest, for the domain-level specification.
FIdle ==
    /\ m_cfg = ScenarioLoop
    /\ fp = IRFixpointIterator(m_cfg, m_cfg.exit)
    /\ seed = bottom
    /\ entry = EmptyMap
    /\ exit = EmptyMap
    /\ code = <<>>
    /\ pc = 0
    /\ phase = "idle"
    /\ prev = [valid |-> FALSE, seed |-> bottom, entry |-> EmptyMap]

DNext ==
    \/ \E i \in ElemIds : Construct(i)
    \/ \E i \in ElemIds, k \in Kinds : ConstructKind(i, k)
    \/ \E i \in ElemIds : SetToBottom(i)
    \/ \E i \in ElemIds : SetToTop(i)
    \/ \E i \in ElemIds, v \in SUBSET Universe : SetToValue(i, v)
    \/ \E i \in ElemIds : Normalize(i)
    \/ \E i \in ElemIds : \E j \in ElemIds \ {i} : JoinWith(i, j)
    \/ \E i \in ElemIds : \E j \in ElemIds \ {i} : WidenWith(i, j)
    \/ \E i \in ElemIds : \E j \in ElemIds \ {i} : MeetWith(i, j)
    \/ \E i \in ElemIds : \E j \in ElemIds \ {i} : NarrowWith(i, j)
    \/ \E i \in ElemIds : \E j \in ElemIds \ {i} : Leq(i, j)
    \/ \E i \in ElemIds : \E j \in ElemIds \ {i} : Join(i, j)
    \/ \E i \in ElemIds : \E j \in ElemIds \ {i} : Widening(i, j)
    \/ \E i \in ElemIds : \E j \in ElemIds \ {i} : Meet(i, j)
    \/ \E i \in ElemIds : \E j \in ElemIds \ {i} : Narrowing(i, j)

\* The scaffolding operations applied to two elements.
Init == DInit /\ FIdle


Spec == Init /\ [][DNext]_vars

\* One iterator, run any number of times.
IterInit == FInit /\ DInit

IterSpec == IterInit /\ [][FNext]_vars

(***************************************************************************)
(* Properties of the scaffolding.                                          *)
(***************************************************************************)
\* The cleared state of a value: what clear() leaves.
Cleared(e) == e.value = V_clear(e.value)

\* C1: in every state reachable by the constructors, set_to_bottom,
\* set_to_top, set_to_value, normalize, join_with, widen_with, meet_with and
\* narrow_with, an element of kind Top or Bottom holds a cleared value.
C1_ExtremalIsCleared ==
    \A i \in ElemIds : elem[i].kind \in {"Top", "Bottom"} => Cleared(elem[i])

\* C2: for all reachable elements a and b, a.equals(b) holds if and only if
\* a.leq(b) and b.leq(a) both hold.
C2_EqualsIffLeqBothWays ==
    \A i, j \in ElemIds :
        equals(elem[i], elem[j])
            <=> (leq(elem[i], elem[j]) /\ leq(elem[j], elem[i]))

\* C3: after join_with or widen_with on self with argument other: if self was
\* Top or other is Bottom, self is unchanged; otherwise if other is Top, self
\* is Top; otherwise if self was Bottom, self is a copy of other (same kind
\* and value); otherwise (both of kind Value) self holds the union of the two
\* sets and the kind the value-level operation returns for it.  other is
\* not modified.
C3_JoinLikeTable ==
    last.op \in {"join_with", "widen_with"} =>
        LET s == last.pre
            o == last.preOther
            r == elem[last.self]
        IN /\ elem[last.other] = o
           /\ (s.kind = "Top" \/ o.kind = "Bottom") => r = s
           /\ (s.kind # "Top" /\ o.kind = "Top") => r.kind = "Top"
           /\ (s.kind = "Bottom" /\ o.kind = "Value") =>
                  (r.kind = o.kind /\ r.value = o.value)
           /\ (s.kind = "Value" /\ o.kind = "Value") =>
                  /\ r.value = s.value \cup o.value
                  /\ r.kind = IF r.value = Universe THEN "Top" ELSE "Value"

\* A join of two Value elements whose value-level result is Top.
C3_Witness ==
    /\ last.op = "join_with"
    /\ last.pre.kind = "Value" /\ last.preOther.kind = "Value"
    /\ last.pre.value # {} /\ last.preOther.value # {}
    /\ elem[last.self].kind = "Top"

\* C4: after meet_with or narrow_with on self with argument other: if self
\* was Bottom or other is Top, self is unchanged; otherwise if other is
\* Bottom, self is Bottom; otherwise if self was Top, self is a copy of other;
\* otherwise (both of kind Value) self holds the intersection of the two sets
\* and the kind the value-level operation returns for it.
C4_MeetLikeTable ==
    last.op \in {"meet_with", "narrow_with"} =>
        LET s == last.pre
            o == last.preOther
            r == elem[last.self]
        IN /\ elem[last.other] = o
           /\ (s.kind = "Bottom" \/ o.kind = "Top") => r = s
           /\ (s.kind # "Bottom" /\ o.kind = "Bottom") => r.kind = "Bottom"
           /\ (s.kind = "Top" /\ o.kind = "Value") =>
                  (r.kind = o.kind /\ r.value = o.value)
           /\ (s.kind = "Value" /\ o.kind = "Value") =>
                  /\ r.value = s.value \cap o.value
                  /\ r.kind = IF r.value = Universe THEN "Top" ELSE "Value"

\* A meet of a Top element with a non-empty Value element: a copy of it.
C4_Witness ==
    /\ last.op = "meet_with"
    /\ last.pre.kind = "Top" /\ last.preOther.kind = "Value"
    /\ last.preOther.value # {}
    /\ elem[last.self] = last.preOther

(***************************************************************************)
(* Properties of the fixpoint iterator.                                    *)
(***************************************************************************)
RECURSIVE ReachFrom(_, _)
\* The nodes reachable from the nodes of S along succs.
ReachFrom(succs, S) ==
    LET T == S \cup
             UNION { { succs[n][k] : k \in 1 .. Len(succs[n]) } : n \in S }
    IN IF T = S THEN S ELSE ReachFrom(succs, T)

Reachable == ReachFrom(fp.succs, {fp.root})

\* The join over the predecessors p of n of analyze_edge(p, n, exit(p)).
JoinOfPreds(n) ==
    JoinPreds(m_cfg, exit, n, fp.preds[n], 1, bottom)

\* C5: after run returns, for every node n of the graph the stored exit state
\* (the live-in variables of the block) equals analyze_node applied to the
\* stored entry state (the live-out variables of the block).
C5_ExitIsTransferOfEntry ==
    phase = "done" =>
        \A n \in BlockIds(m_cfg) :
            equals(get_live_in_vars_at(n),
                   analyze_node(m_cfg, n, get_live_out_vars_at(n)))

\* A finished run on a graph with a loop where a block's exit state differs
\* from its entry state.
C5_Witness ==
    /\ phase = "done"
    /\ \E n \in BlockIds(m_cfg) :
          /\ get_live_out_vars_at(n).kind = "Value"
          /\ get_live_in_vars_at(n).kind = "Value"
          /\ get_live_in_vars_at(n) # get_live_out_vars_at(n)
    /\ \E k \in 1 .. Len(code) : code[k].kind = "end"

C8_UnreachableIsBottom ==
    \A n \in QueryIds(m_cfg) \ Reachable :
        /\ is_bottom(get_entry_state_at(n))
        /\ is_bottom(get_exit_state_at(n))
        /\ n \notin DOMAIN entry
        /\ n \notin DOMAIN exit

\* A finished run with a non-Bottom seed on a graph with a block that cannot
\* reach the exit, one of whose neighbours got a non-Bottom state.
C8_Witness ==
    /\ phase = "done"
    /\ BlockIds(m_cfg) \ Reachable # {}
    /\ \E n \in Reachable :
          /\ ~is_bottom(get_entry_state_at(n))
          /\ \E k \in 1 .. Len(fp.preds[n]) : fp.preds[n][k] \notin Reachable

\* C10: for the same iterator, if seed1.leq(seed2) then for every node n the
\* entry state at n after run(seed1) is leq the entry state after run(seed2).
C10_MonotoneSeed ==
    (phase = "done" /\ prev.valid) =>
        /\ leq(prev.seed, seed) =>
              \A n \in QueryIds(m_cfg) :
                  leq(MapGet(prev.entry, n), get_entry_state_at(n))
        /\ leq(seed, prev.seed) =>
              \A n \in QueryIds(m_cfg) :
                  leq(get_entry_state_at(n), MapGet(prev.entry, n))

\* Two finished runs with strictly ordered Value seeds and a node whose entry
\* states differ.
C10_Witness ==
    /\ phase = "done" /\ prev.valid
    /\ leq(prev.seed, seed) /\ ~leq(seed, prev.seed)
    /\ prev.seed.kind = "Value" /\ seed.kind = "Value"
    /\ \E n \in BlockIds(m_cfg) \ {fp.root} :
          ~leq(get_entry_state_at(n), MapGet(prev.entry, n))

\* The height of an element in the lattice: Bottom, the sets by size, Top.
Height(e) ==
    IF e.kind = "Bottom" THEN 0
    ELSE IF e.kind = "Top" THEN NumRegs + 2
    ELSE 1 + Cardinality(e.value)

RECURSIVE SumHeights(_, _)
SumHeights(m, S) ==
    IF S = {} THEN 0
    ELSE LET n == CHOOSE x \in S : TRUE
         IN Height(MapGet(m, n)) + SumHeights(m, S \ {n})

\* How far a run has got: the heights of the entry states, then the position.
Progress ==
    SumHeights(entry, BlockIds(m_cfg)) * (Len(code) + 3)
        + pc + (IF phase = "done" THEN 1 ELSE 0)

ProgressLimit ==
    (Cardinality(BlockIds(m_cfg)) * (NumRegs + 2) + 1) * (Len(code) + 3)

\* C7: run returns: every step of a run moves it strictly forward in a
\* bounded order (the entry states never descend, and the position advances
\* unless an entry state has risen), the position stays within the ordering
\* until run returns, and a component is iterated again (the position moves
\* back to the first step after its head) only when the entry state of its
\* head has changed.
C7_Termination ==
    /\ [](Progress <= ProgressLimit)
    /\ [](phase = "running" => pc \in 1 .. (Len(code) + 1))
    /\ [][phase = "running" =>
             /\ Progress' > Progress
             /\ (phase' = "running" /\ pc' <= pc) =>
                    /\ code[pc].kind = "end"
                    /\ pc' = code[pc].target
                    /\ ~equals(entry'[code[pc].node], entry[code[pc].node])]_vars

\* A finished run in which the head of the inner component of two nested
\* ones ended above its first entry state.
C7_Witness ==
    /\ phase = "done"
    /\ \E k \in 1 .. Len(code) :
          /\ code[k].kind = "head" /\ k > 1 /\ code[k - 1].kind = "head"
          /\ get_entry_state_at(code[k].node).kind = "Top"
          /\ seed.kind = "Value"

\* The predecessors function of an iterator on the three-block chain.
ChainPreds == [b \in 0 .. 2 |-> ChainSuccs[b + 1]]

\* A block's live-in and live-out sets as the test reads them: the element is
\* a set (size() and elements() are those of a Value).
LiveIs(e, regs) ==
    e.kind = "Value" /\ e.value = { get_register(i) : i \in regs }

ScenarioResult ==
    /\ LiveIs(get_live_in_vars_at(0), {})
    /\ LiveIs(get_live_out_vars_at(0), {0, 2})
    /\ LiveIs(get_live_in_vars_at(1), {0, 2})
    /\ LiveIs(get_live_out_vars_at(1), {0, 2})
    /\ LiveIs(get_live_in_vars_at(2), {2})
    /\ LiveIs(get_live_out_vars_at(2), {})

C11_OrderConsistency ==
    /\ \A i \in ElemIds : \A j \in ElemIds :
          LET a == elem[i]
              b == elem[j]
          IN /\ leq(a, b) <=> equals(join(a, b), b)
             /\ leq(a, b) <=> equals(meet(a, b), a)
    /\ last.op = "join" =>
          (leq(last.pre, last.preOther) <=> equals(ret[1], last.preOther))
    /\ last.op = "meet" =>
          (leq(last.pre, last.preOther) <=> equals(ret[1], last.pre))

\* C12: the decision table of leq: Bottom.leq(x) is true for every x,
\* x.leq(Top) is true for every x, x.leq(Bottom) is false for every x that is
\* not Bottom, Top.leq(x) is false for every x of kind Value, and two elements
\* of kind Value compare as their values do; hence bottom().leq(a) and
\* a.leq(top()) for every element a.
C12_LeqTable ==
    /\ \A i \in ElemIds : leq(bottom, elem[i]) /\ leq(elem[i], top)
    /\ last.op = "leq" =>
          LET x == last.pre
              y == last.preOther
              r == ret[1]
          IN /\ is_bottom(x) => r
             /\ is_top(y) => r
             /\ (is_bottom(y) /\ ~is_bottom(x)) => ~r
             /\ (is_top(x) /\ is_value(y)) => ~r
             /\ (is_value(x) /\ is_value(y)) => (r <=> V_leq(x.value, y.value))

\* leq has just answered true for a Top receiver and a Top argument whose
\* stored values differ.
C12_Witness ==
    /\ last.op = "leq"
    /\ is_top(last.pre) /\ is_top(last.preOther)
    /\ last.pre.value # last.preOther.value
    /\ ret = <<TRUE>>

\* C13: the functional operations join, widening, meet and narrowing leave
\* the receiver and the argument as they were, and return an element equal to
\* the one join_with, widen_with, meet_with, narrow_with leave in a copy of
\* the receiver.
C13_FunctionalMirrors ==
    LET x == last.pre
        y == last.preOther
        Mirrors(r) == ret = <<r>> /\ equals(ret[1], r)
    IN /\ last.op \in {"join", "widening", "meet", "narrowing"} =>
             elem[last.self] = x /\ elem[last.other] = y
       /\ last.op = "join" => Mirrors(join_with(x, y))
       /\ last.op = "widening" => Mirrors(widen_with(x, y))
       /\ last.op = "meet" => Mirrors(meet_with(x, y))
       /\ last.op = "narrowing" => Mirrors(narrow_with(x, y))

\* join has just returned an element that is neither of its operands, which
\* are two sets neither of which holds the other.
C13_Witness ==
    /\ last.op = "join"
    /\ is_value(last.pre) /\ is_value(last.preOther)
    /\ ret # <<last.pre>> /\ ret # <<last.preOther>>
    /\ elem[last.self] = last.pre /\ elem[last.other] = last.preOther

====
